---- MODULE Spec2Model ----
(***************************************************************************)
(* Model of the fromJWT request modifier (src/fromJWT.go).                 *)
(*                                                                         *)
(* Strings are sequences of one-character strings, so that splitting,     *)
(* rebuilding and substring replacement are computed character by         *)
(* character as the Go code does.  A panic of the Go runtime (index out   *)
(* of range, assignment to an entry of a nil map) is an outcome of its    *)
(* own: pc = "panic".                                                      *)
(***************************************************************************)
EXTENDS Integers, Sequences, FiniteSets, TLC

VARIABLES cfg,      \* the FromJWT object: Querystring, PathParam, PathString, JsonBody, JwtCookieKey
          req,      \* the *http.Request being modified
          req0,     \* history: the request as it was when ModifyRequest was called
          loc,      \* locals of the running call: jwt, query, bodyData, i
          pc,       \* position of ModifyRequest
          err,      \* the error ModifyRequest returns ("" is nil)
          applied,  \* history: the rules applied so far, in order
          call      \* a direct call of replaceVarInUrl: arguments, position, result

vars == <<cfg, req, req0, loc, pc, err, applied, call>>

---------------------------------------------------------------------------
(* Bounds of the model.                                                    *)

\* Longest path handed to a direct call of replaceVarInUrl.
MaxPathLen == 4
\* Longest replacement value handed to a direct call of replaceVarInUrl.
MaxValLen == 2
\* Largest position handed to a direct call of replaceVarInUrl (smallest: -1).
MaxPos == 3
\* Total number of rules of a configuration.
MaxRules == 2

---------------------------------------------------------------------------
(* Strings.                                                                *)

Slash == "/"

SeqsUpTo(S, n) == UNION {[1..k -> S] : k \in 0..n}

Last(s) == s[Len(s)]

\* s[from..] with from counted from 1
Drop(s, n) == SubSeq(s, n + 1, Len(s))

StartsWith(s, p) == Len(p) <= Len(s) /\ SubSeq(s, 1, Len(p)) = p

\* strings.Split(s, "/"): the parts between the slashes, empty parts included
RECURSIVE SplitFrom(_, _, _)
SplitFrom(s, i, cur) ==
    IF i > Len(s) THEN <<cur>>
    ELSE IF s[i] = Slash THEN <<cur>> \o SplitFrom(s, i + 1, <<>>)
    ELSE SplitFrom(s, i + 1, Append(cur, s[i]))

Split(s) == SplitFrom(s, 1, <<>>)

\* the loop of lines 136-140: the non-empty parts, in order
cleanedParts(parts) == SelectSeq(parts, LAMBDA v : v # <<>>)

\* the loop of lines 142-149 from index i (counted from 1) on
RECURSIVE rebuild(_, _, _, _)
rebuild(parts, i, varPosition, newValue) ==
    IF i > Len(parts) THEN <<>>
    ELSE <<Slash>> \o (IF i - 1 = varPosition THEN newValue ELSE parts[i])
         \o rebuild(parts, i + 1, varPosition, newValue)

\* line 151: url[len(url)-1] == '/' && newUrl[len(newUrl)-1] != '/'.  The right
\* operand is evaluated only when the left one holds, and indexes an empty newUrl
\* at -1: the runtime panics.
TrailingSlashPanics(url, newUrl) == Last(url) = Slash /\ newUrl = <<>>

TrailingSlashMissing(url, newUrl) == Last(url) = Slash /\ Last(newUrl) # Slash

NeverAppendSlash(url, newUrl) == FALSE

\* lines 151-153: whether a slash is appended to the rebuilt url
AppendsSlash(url, newUrl) == TrailingSlashMissing(url, newUrl)

RebuildIgnoringPosition(url, varPosition, newValue) ==
    rebuild(cleanedParts(Split(url)), 1, -1, newValue)

\* lines 133-149: the rebuilt url before the trailing slash is looked at
Rebuilt(url, varPosition, newValue) ==
    rebuild(cleanedParts(Split(url)), 1, varPosition, newValue)

\* FromJWT.replaceVarInUrl: [panic |-> TRUE] or the string returned
replaceVarInUrl(url, varPosition, newValue) ==
    IF url = <<>> THEN [panic |-> FALSE, val |-> <<>>]
    ELSE LET newUrl == Rebuilt(url, varPosition, newValue)
         IN  IF TrailingSlashPanics(url, newUrl) THEN [panic |-> TRUE, val |-> <<>>]
             ELSE IF AppendsSlash(url, newUrl)
                  THEN [panic |-> FALSE, val |-> Append(newUrl, Slash)]
                  ELSE [panic |-> FALSE, val |-> newUrl]

---------------------------------------------------------------------------
(* A direct call of replaceVarInUrl, as TestReplaceVarInUrl makes them.    *)

PathChars == {Slash, "a", "b"}
ValChars == {Slash, "v"}

NoCall == [url |-> <<>>, varPosition |-> 0, newValue |-> <<>>, pc |-> "none", val |-> <<>>]

InitCall ==
    call \in [url : SeqsUpTo(PathChars, MaxPathLen),
              varPosition : -1..MaxPos,
              newValue : SeqsUpTo(ValChars, MaxValLen),
              pc : {"call"},
              val : {<<>>}]

CallReplaceVarInUrl ==
    /\ call.pc = "call"
    /\ LET r == replaceVarInUrl(call.url, call.varPosition, call.newValue)
       IN  call' = [call EXCEPT !.pc = IF r.panic THEN "panic" ELSE "returned",
                                !.val = r.val]
    /\ UNCHANGED <<cfg, req, req0, loc, pc, err, applied>>

---------------------------------------------------------------------------
(* JSON.  A value inside an object is a tag with its payload: the digits   *)
(* of a number (n) or the characters of a string (s).  A number is the     *)
(* integer hi * Limb + lo, so that the 53-bit mantissa of the float64      *)
(* that encoding/json decodes it into is at its real width.  A JSON text   *)
(* is modelled by the value it denotes; an object is a function from       *)
(* Names (o), and Absent marks a name the object does not have.            *)

\* the names of the model: of the claims, and of the fields of a body
Keys == {"sub", "uid"}
FieldNames == {"f", "h"}
Names == Keys \cup FieldNames

Limb == 2^27
\* hi of 2^53: from here on a float64 holds only the even integers
Mant == 2^26

Absent == [t |-> "absent", n |-> <<>>, s |-> <<>>]
Num(hi, lo) == [t |-> "num", n |-> <<hi, lo>>, s |-> <<>>]
Str(s) == [t |-> "str", n |-> <<>>, s |-> s]

NoFields == [x \in Names |-> Absent]

JText(t, x, o) == [t |-> t, n |-> x.n, s |-> x.s, o |-> o]
JInvalid == JText("invalid", Absent, NoFields)   \* bytes that are no JSON text
JNull    == JText("null", Absent, NoFields)
JArr     == JText("arr", Absent, NoFields)
JNum(hi, lo) == JText("num", Num(hi, lo), NoFields)
JStr(s)  == JText("str", Str(s), NoFields)
JObj(o)  == JText("obj", Absent, o)

\* strconv.ParseFloat as encoding/json uses it for a number decoded into an
\* interface{}: the nearest float64, ties to the even mantissa.  Integers below
\* 2^53 are exact; in [2^53, 2^54) an odd integer is a tie between its neighbours.
Float64(x) ==
    LET hi == x.n[1]
        lo == x.n[2]
    IN  IF hi < Mant \/ lo % 2 = 0 THEN x
        ELSE IF ((lo - 1) \div 2) % 2 = 0 THEN Num(hi, lo - 1)
        ELSE IF lo + 1 = Limb THEN Num(hi + 1, 0)
        ELSE Num(hi, lo + 1)

\* the Go value json.Unmarshal stores in an interface{} for a JSON value
DecodeValue(x) == IF x.t = "num" THEN Float64(x) ELSE x

\* a Go map[string]interface{}: nil, or its entries
NilMap == [nil |-> TRUE, m |-> NoFields]
EmptyMap == [nil |-> FALSE, m |-> NoFields]

\* json.Unmarshal(text, &map), lines 119 and 211: an object's fields are stored
\* in the map (made when it is nil), null sets the map to nil without an error,
\* anything else is an error.
Unmarshal(text, old) ==
    IF text.t = "obj"
    THEN [err |-> "",
          map |-> [nil |-> FALSE,
                   m |-> [x \in Names |->
                            IF text.o[x] = Absent THEN old.m[x] ELSE DecodeValue(text.o[x])]]]
    ELSE IF text.t = "null" THEN [err |-> "", map |-> [nil |-> TRUE, m |-> NoFields]]
    ELSE [err |-> "json", map |-> old]

\* json.Marshal of a map, line 222: an object of its entries; a float64 below 2^54
\* is written with all its digits
Marshal(map) == JObj(map.m)

\* value, ok := map[key]; a nil map has no entries
Has(map, key) == ~map.nil /\ map.m[key] # Absent

DigitChars == <<"0", "1", "2", "3", "4", "5", "6", "7", "8", "9">>

RECURSIVE Decimal(_)
Decimal(n) == IF n < 10 THEN <<DigitChars[n + 1]>>
              ELSE Append(Decimal(n \div 10), DigitChars[(n % 10) + 1])

\* fmt.Sprintf("%v", newVal), lines 166, 181, 193: a string as it is, a float64
\* below 10^6 as its decimal digits (%v writes larger ones with an exponent;
\* none is in the model)
Sprintf(x) ==
    CASE x.t = "str" -> x.s
      [] x.t = "num" /\ x.n[1] = 0 /\ x.n[2] < 1000000 -> Decimal(x.n[2])

---------------------------------------------------------------------------
(* The query string: RawQuery is the sequence of its name=value pairs.     *)

\* the names a query can hold, in the order url.Values.Encode sorts them
QueryNames == <<"q", "r">>

\* req.URL.Query(), line 160: each name's values, in their order
ParseQuery(raw) ==
    [n \in {QueryNames[j] : j \in DOMAIN QueryNames} |->
        LET own == SelectSeq(raw, LAMBDA p : p.k = n)
        IN  [j \in 1..Len(own) |-> own[j].v]]

\* query.Set(name, value), line 166: the name's values become the one value
QuerySet(query, name, value) == [query EXCEPT ![name] = <<value>>]

RECURSIVE EncodeFrom(_, _)
EncodeFrom(query, j) ==
    IF j > Len(QueryNames) THEN <<>>
    ELSE [i \in 1..Len(query[QueryNames[j]]) |->
             [k |-> QueryNames[j], v |-> query[QueryNames[j]][i]]]
         \o EncodeFrom(query, j + 1)

EncodeNothing(query) == <<>>

\* query.Encode(), line 170: the pairs sorted by name
Encode(query) == EncodeFrom(query, 1)

---------------------------------------------------------------------------
(* strings.ReplaceAll(s, old, new), line 193.                             *)

RECURSIVE ReplaceFrom(_, _, _, _)
ReplaceFrom(s, i, old, new) ==
    IF i > Len(s) THEN <<>>
    ELSE IF StartsWith(Drop(s, i - 1), old)
         THEN new \o ReplaceFrom(s, i + Len(old), old, new)
         ELSE <<s[i]>> \o ReplaceFrom(s, i + 1, old, new)

RECURSIVE Interleave(_, _, _)
Interleave(s, i, new) ==
    IF i > Len(s) THEN new ELSE new \o <<s[i]>> \o Interleave(s, i + 1, new)

\* an empty old matches before every character and at the end
ReplaceAll(s, old, new) ==
    IF old = <<>> THEN Interleave(s, 1, new) ELSE ReplaceFrom(s, 1, old, new)

---------------------------------------------------------------------------
(* The configurations and the requests of the model.                       *)

Obj(f, h) == JObj([x \in Names |-> IF x = "f" THEN f ELSE IF x = "h" THEN h ELSE Absent])
Claims(sub, uid) == JObj([x \in Names |-> IF x = "sub" THEN sub ELSE IF x = "uid" THEN uid ELSE Absent])

Seven == Num(0, 7)
\* 2^53 + 1, an integer no float64 holds
Big == Num(Mant, 1)

\* a JWT is the sequence of its period-separated segments (strings.Split(raw, "."),
\* line 111); a segment is empty, or base64url of a text, or no base64url at all
Seg(text) == [enc |-> "b64", json |-> text]
EmptySeg == [enc |-> "empty", json |-> JInvalid]
GarbageSeg == [enc |-> "garbage", json |-> JInvalid]
Sig == Seg(JInvalid)
\* the empty string: Split gives one empty segment
EmptyRaw == <<EmptySeg>>

Token(text) == <<Sig, Seg(text), Sig>>

ClaimTexts == {Claims(Absent, Absent), Claims(Seven, Absent),
               Claims(Str(<<"7">>), Absent), Claims(Seven, Str(<<"8">>))}

\* tokens whose payload is a JSON object, and the one whose payload is null
GoodTokens == {Token(c) : c \in ClaimTexts} \cup {Token(JNull)}

OddTokens == {<<Sig, Seg(Claims(Seven, Absent))>>,
              <<Sig, GarbageSeg, Sig>>,
              <<Sig, EmptySeg, Sig>>,
              Token(JInvalid), Token(JNum(0, 7)), Token(JStr(<<"7">>)), Token(JArr),
              <<Sig, Seg(Claims(Seven, Absent)), Sig, Sig>>}

Header(prefix, rest) == [prefix |-> prefix, rest |-> rest]
NoHeader == Header("", EmptyRaw)

Cookie(name, value) == [name |-> name, value |-> value]

\* where the token is: in a bearer header; or a header that holds none and the cookies
PlainSources == {[auth |-> Header("Bearer ", t), cookies |-> <<>>] : t \in GoodTokens}

OddSources ==
    {[auth |-> Header(p, t), cookies |-> <<>>] : p \in {"Bearer ", "bearer "}, t \in OddTokens}
    \cup {[auth |-> a, cookies |-> c] :
            a \in {NoHeader, Header("Bearer ", EmptyRaw), Header("Basic ", Token(Claims(Seven, Absent)))},
            c \in {<<>>, <<Cookie("sid", Token(Claims(Seven, Absent)))>>,
                   <<Cookie("jwt", EmptyRaw)>>,
                   <<Cookie("sid", EmptyRaw), Cookie("jwt", Token(Claims(Seven, Absent)))>>,
                   <<Cookie("jwt", Token(JNull))>>,
                   <<Cookie("jwt", <<Sig, Sig>>)>>}}

Paths == {<<>>, <<Slash>>, <<Slash, "a">>, <<Slash, "a", Slash, "b", Slash>>}

RawQueries == {<<>>, <<[k |-> "r", v |-> <<"0">>], [k |-> "q", v |-> <<"0">>],
                       [k |-> "q", v |-> <<"1">>]>>}

\* req.Body: nil, or a stream of a text, read to its end or not
NoBody == [present |-> FALSE, text |-> JInvalid, read |-> FALSE]
Body(text) == [present |-> TRUE, text |-> text, read |-> FALSE]

BodyTexts == {JInvalid, JNull, JNum(0, 7), JArr, Obj(Absent, Absent), Obj(Str(<<"0">>), Big)}

Json == "application/json"

Payloads == {[body |-> Body(t), ctype |-> Json] : t \in BodyTexts}
            \cup {[body |-> NoBody, ctype |-> Json],
                  [body |-> Body(Obj(Str(<<"0">>), Big)), ctype |-> "application/json; charset=utf-8"],
                  [body |-> Body(Obj(Str(<<"0">>), Big)), ctype |-> ""]}

Request(src, path, raw, pl) ==
    [auth |-> src.auth, cookies |-> src.cookies, path |-> path, rawQuery |-> raw,
     body |-> pl.body, ctype |-> pl.ctype]

QueryRules == [Name : {"q"}, KeyJWT : Keys]
PathParamRules == [Position : {0, 1}, KeyJWT : Keys]
PathStringRules == [Name : {<<"a">>}, KeyJWT : Keys]
JsonBodyRules == [Name : {"f"}, KeyJWT : Keys]

LenSplits(n) == {l \in [1..4 -> 0..n] : l[1] + l[2] + l[3] + l[4] <= n}

\* the FromJWT objects with at most n rules in all
Configs(n) ==
    UNION {[Querystring : [1..l[1] -> QueryRules],
            PathParam : [1..l[2] -> PathParamRules],
            PathString : [1..l[3] -> PathStringRules],
            JsonBody : [1..l[4] -> JsonBodyRules],
            JwtCookieKey : {"jwt"}] : l \in LenSplits(n)}

NoLocals == [jwt |-> NilMap,
             query |-> ParseQuery(<<>>),
             bodyData |-> NilMap,
             i |-> 1]

\* A request arrives at a configured modifier.  Either the token is a well-formed
\* one in a bearer header and the rules and the request vary, or the token and
\* its place vary and there is at most one rule.
InitRequest ==
    /\ \/ /\ cfg \in Configs(MaxRules)
          /\ req \in {Request(s, p, q, pl) :
                        s \in PlainSources, p \in Paths, q \in RawQueries, pl \in Payloads}
       \/ /\ cfg \in Configs(1)
          /\ req \in {Request(s, p, q, pl) :
                        s \in OddSources, p \in {<<Slash, "a">>}, q \in RawQueries,
                        pl \in {[body |-> Body(Obj(Str(<<"0">>), Big)), ctype |-> Json]}}
    /\ req0 = req
    /\ loc = NoLocals
    /\ pc = "parseJwtValues"
    /\ err = ""
    /\ applied = <<>>

---------------------------------------------------------------------------
(* FromJWT.parseJwtValues.                                                 *)

\* strings.EqualFold(h[0:7], "BEARER "), line 96, on the prefixes of the model
EqualFoldBearer(prefix) == prefix \in {"Bearer ", "bearer ", "BEARER "}

\* lines 96-98: len(h) > 7 says that something follows the seven characters
BearerToken(h) ==
    IF h.rest # EmptyRaw /\ EqualFoldBearer(h.prefix) THEN h.rest ELSE EmptyRaw

\* req.Cookie(name), line 100: the first cookie of that name
FindCookie(cookies, name) ==
    LET own == SelectSeq(cookies, LAMBDA c : c.name = name)
    IN  IF own = <<>> THEN [err |-> "http: named cookie not present", value |-> EmptyRaw]
        ELSE [err |-> "", value |-> own[1].value]

TooFewPartsOffByOne(jwtParts) == Len(jwtParts) < 2

\* line 112
TooFewParts(jwtParts) == Len(jwtParts) < 3

\* base64.RawURLEncoding.DecodeString, line 115: the bytes, by the text they hold
DecodeString(seg) ==
    IF seg.enc = "garbage" THEN [err |-> "base64", text |-> JInvalid]
    ELSE [err |-> "", text |-> seg.json]

\* lines 110-122, from the raw token on
decodeToken(raw) ==
    IF TooFewParts(raw) THEN [err |-> "bad format of jwt", jwt |-> NilMap]
    ELSE LET b == DecodeString(raw[2])
         IN  IF b.err # "" THEN [err |-> b.err, jwt |-> NilMap]
             ELSE LET u == Unmarshal(b.text, NilMap)
                  IN  IF u.err # "" THEN [err |-> u.err, jwt |-> NilMap]
                      ELSE [err |-> "", jwt |-> u.map]

parseJwtValues(r, JwtCookieKey) ==
    LET fromHeader == BearerToken(r.auth)
    IN  IF fromHeader # EmptyRaw THEN decodeToken(fromHeader)
        ELSE LET cookie == FindCookie(r.cookies, JwtCookieKey)
             IN  IF cookie.err # "" THEN [err |-> cookie.err, jwt |-> NilMap]
                 ELSE IF cookie.value = EmptyRaw
                      THEN [err |-> "jwt not found in auth header, nor cookie", jwt |-> NilMap]
                      ELSE decodeToken(cookie.value)

---------------------------------------------------------------------------
(* FromJWT.ModifyRequest, a step at a time.                                *)

ParamsAfterStrings(step) ==
    CASE step = "modifyQuerystring" -> "modifyPathStrings"
      [] step = "modifyPathStrings" -> "modifyPathParams"
      [] step = "modifyPathParams" -> "modifyBodyJson"

\* lines 59-74: the step that follows a step that returned nil
NextStep(step) ==
    CASE step = "modifyQuerystring" -> "modifyPathParams"
      [] step = "modifyPathParams" -> "modifyPathStrings"
      [] step = "modifyPathStrings" -> "modifyBodyJson"

KeyNotInJwt == "key not in jwt"

Applied(group, entry) == Append(applied, [group |-> group, entry |-> entry])

\* every "return err" of ModifyRequest and of the functions it calls
Fail(e) ==
    /\ err' = e
    /\ pc' = "done"

\* lines 55-58, and line 160 when the claims were extracted
ParseJwtValues ==
    /\ pc = "parseJwtValues"
    /\ LET r == parseJwtValues(req, cfg.JwtCookieKey)
       IN  IF r.err # ""
           THEN /\ Fail(r.err)
                /\ UNCHANGED <<loc, req>>
           ELSE /\ loc' = [loc EXCEPT !.jwt = r.jwt, !.query = ParseQuery(req.rawQuery), !.i = 1]
                /\ pc' = "modifyQuerystring"
                /\ UNCHANGED <<err, req>>
    /\ UNCHANGED <<cfg, req0, applied, call>>

SetWritesThrough(r, query) == [r EXCEPT !.rawQuery = Encode(query)]

\* line 166 sets the value in query, the copy that req.URL.Query() made: the
\* request is as it was
RequestAfterSet(r, query) == r

\* lines 161-169, one entry
QuerystringEntry ==
    /\ pc = "modifyQuerystring"
    /\ loc.i <= Len(cfg.Querystring)
    /\ LET entry == cfg.Querystring[loc.i]
       IN  IF ~Has(loc.jwt, entry.KeyJWT)
           THEN /\ Fail(KeyNotInJwt)
                /\ UNCHANGED <<loc, req, applied>>
           ELSE /\ loc' = [loc EXCEPT
                             !.query = QuerySet(loc.query, entry.Name, Sprintf(loc.jwt.m[entry.KeyJWT])),
                             !.i = loc.i + 1]
                /\ req' = RequestAfterSet(req, loc'.query)
                /\ applied' = Applied("Querystring", entry)
                /\ UNCHANGED <<pc, err>>
    /\ UNCHANGED <<cfg, req0, call>>

\* lines 170-171
QuerystringReturn ==
    /\ pc = "modifyQuerystring"
    /\ loc.i > Len(cfg.Querystring)
    /\ req' = [req EXCEPT !.rawQuery = Encode(loc.query)]
    /\ loc' = [loc EXCEPT !.i = 1]
    /\ pc' = NextStep(pc)
    /\ UNCHANGED <<cfg, req0, err, applied, call>>

\* lines 176-182, one entry
PathParamEntry ==
    /\ pc = "modifyPathParams"
    /\ loc.i <= Len(cfg.PathParam)
    /\ LET entry == cfg.PathParam[loc.i]
       IN  IF ~Has(loc.jwt, entry.KeyJWT)
           THEN /\ Fail(KeyNotInJwt)
                /\ UNCHANGED <<loc, req, applied>>
           ELSE LET r == replaceVarInUrl(req.path, entry.Position, Sprintf(loc.jwt.m[entry.KeyJWT]))
                IN  IF r.panic
                    THEN /\ pc' = "panic"
                         /\ UNCHANGED <<loc, req, applied, err>>
                    ELSE /\ req' = [req EXCEPT !.path = r.val]
                         /\ loc' = [loc EXCEPT !.i = loc.i + 1]
                         /\ applied' = Applied("PathParam", entry)
                         /\ UNCHANGED <<pc, err>>
    /\ UNCHANGED <<cfg, req0, call>>

\* line 183
PathParamsReturn ==
    /\ pc = "modifyPathParams"
    /\ loc.i > Len(cfg.PathParam)
    /\ loc' = [loc EXCEPT !.i = 1]
    /\ pc' = NextStep(pc)
    /\ UNCHANGED <<cfg, req, req0, err, applied, call>>

\* lines 188-194, one entry
PathStringEntry ==
    /\ pc = "modifyPathStrings"
    /\ loc.i <= Len(cfg.PathString)
    /\ LET entry == cfg.PathString[loc.i]
       IN  IF ~Has(loc.jwt, entry.KeyJWT)
           THEN /\ Fail(KeyNotInJwt)
                /\ UNCHANGED <<loc, req, applied>>
           ELSE /\ req' = [req EXCEPT
                             !.path = ReplaceAll(req.path, entry.Name, Sprintf(loc.jwt.m[entry.KeyJWT]))]
                /\ loc' = [loc EXCEPT !.i = loc.i + 1]
                /\ applied' = Applied("PathString", entry)
                /\ UNCHANGED <<pc, err>>
    /\ UNCHANGED <<cfg, req0, call>>

\* line 195
PathStringsReturn ==
    /\ pc = "modifyPathStrings"
    /\ loc.i > Len(cfg.PathString)
    /\ loc' = [loc EXCEPT !.i = 1]
    /\ pc' = NextStep(pc)
    /\ UNCHANGED <<cfg, req, req0, err, applied, call>>

\* line 201
BodySkipped(c, r) == ~r.body.present \/ Len(c.JsonBody) = 0 \/ r.ctype # Json

\* lines 201-213: the step is skipped, or the body is read to its end, closed
\* and parsed into a new map
BodyJsonBegin ==
    /\ pc = "modifyBodyJson"
    /\ IF BodySkipped(cfg, req)
       THEN /\ pc' = "done"
            /\ UNCHANGED <<loc, req, err>>
       ELSE LET u == Unmarshal(req.body.text, EmptyMap)
            IN  /\ req' = [req EXCEPT !.body.read = TRUE]
                /\ IF u.err # ""
                   THEN /\ Fail(u.err)
                        /\ UNCHANGED loc
                   ELSE /\ loc' = [loc EXCEPT !.bodyData = u.map, !.i = 1]
                        /\ pc' = "bodyEntries"
                        /\ UNCHANGED err
    /\ UNCHANGED <<cfg, req0, applied, call>>

\* lines 215-221, one entry; line 220 assigns to an entry of bodyData, and the
\* runtime panics when bodyData is nil
BodyJsonEntry ==
    /\ pc = "bodyEntries"
    /\ loc.i <= Len(cfg.JsonBody)
    /\ LET entry == cfg.JsonBody[loc.i]
       IN  IF ~Has(loc.jwt, entry.KeyJWT)
           THEN /\ Fail(KeyNotInJwt)
                /\ UNCHANGED <<loc, applied>>
           ELSE IF loc.bodyData.nil
           THEN /\ pc' = "panic"
                /\ UNCHANGED <<loc, applied, err>>
           ELSE /\ loc' = [loc EXCEPT !.bodyData.m[entry.Name] = loc.jwt.m[entry.KeyJWT],
                                      !.i = loc.i + 1]
                /\ applied' = Applied("JsonBody", entry)
                /\ UNCHANGED <<pc, err>>
    /\ UNCHANGED <<cfg, req, req0, call>>

\* lines 222-227
BodyJsonReturn ==
    /\ pc = "bodyEntries"
    /\ loc.i > Len(cfg.JsonBody)
    /\ req' = [req EXCEPT !.body = Body(Marshal(loc.bodyData))]
    /\ pc' = "done"
    /\ UNCHANGED <<cfg, req0, loc, err, applied, call>>

Next ==
    \/ ParseJwtValues
    \/ QuerystringEntry
    \/ QuerystringReturn
    \/ PathParamEntry
    \/ PathParamsReturn
    \/ PathStringEntry
    \/ PathStringsReturn
    \/ BodyJsonBegin
    \/ BodyJsonEntry
    \/ BodyJsonReturn

Init == InitRequest /\ call = NoCall

\* ModifyRequest on a request
Spec == Init /\ [][Next]_vars

Idle ==
    /\ cfg \in Configs(0)
    /\ req = Request([auth |-> NoHeader, cookies |-> <<>>], <<>>, <<>>,
                     [body |-> NoBody, ctype |-> ""])
    /\ req0 = req
    /\ loc = NoLocals
    /\ pc = "none"
    /\ err = ""
    /\ applied = <<>>

InitUrl == InitCall /\ Idle

NextUrl == CallReplaceVarInUrl

\* replaceVarInUrl on its own
SpecUrl == InitUrl /\ [][NextUrl]_vars

---------------------------------------------------------------------------
(* Properties of replaceVarInUrl, checked under SpecUrl.                   *)

\* the non-empty slash-segments of a path
Segs(p) == SelectSeq(Split(p), LAMBDA v : v # <<>>)

InRange(p, k) == k >= 0 /\ k < Len(Segs(p))

\* the segments of p with the one at index k (from 0) replaced by v when k is an index
SegsReplaced(p, k, v) == IF InRange(p, k) THEN [Segs(p) EXCEPT ![k + 1] = v] ELSE Segs(p)

EndsWithSlash(p) == p # <<>> /\ Last(p) = Slash

\* a value that is one segment: not empty, no slash in it
OneSegment(v) == v # <<>> /\ \A j \in 1..Len(v) : v[j] # Slash

\* C3 as stated: for every path, position and value, the non-empty segments of the
\* result are those of the path with the one at the position replaced by the value
\* (unchanged when the position is out of range).
C3_AsStated ==
    call.pc = "returned" =>
        Segs(call.val) = SegsReplaced(call.url, call.varPosition, call.newValue)

\* C3, amended: for every path that is empty or has a non-empty segment the call
\* returns, and when the value is one segment (not empty, without a slash) the
\* non-empty segments of the result are those of the path with the one at the
\* position replaced by the value, and are those of the path when the position is
\* out of range.
C3_Segments ==
    /\ (call.pc # "call" /\ (call.url = <<>> \/ Segs(call.url) # <<>>)) => call.pc = "returned"
    /\ (call.pc = "returned" /\ OneSegment(call.newValue)) =>
          Segs(call.val) = SegsReplaced(call.url, call.varPosition, call.newValue)
    /\ (call.pc = "returned" /\ ~InRange(call.url, call.varPosition)) =>
          Segs(call.val) = Segs(call.url)

\* a middle segment of a path of three was replaced by a one-segment value
C3_Witness ==
    /\ call.pc = "returned"
    /\ OneSegment(call.newValue)
    /\ Len(Segs(call.url)) >= 2
    /\ call.varPosition = 1
    /\ Segs(call.val)[2] = call.newValue
    /\ Segs(call.val)[1] = Segs(call.url)[1]

\* C4 as stated: for a path with a non-empty segment, the result ends with a slash
\* exactly when the path does, whatever the position and the value.
C4_AsStated ==
    (call.pc = "returned" /\ Segs(call.url) # <<>>) =>
        (EndsWithSlash(call.val) <=> EndsWithSlash(call.url))

\* the last segment is the one replaced, by a value that is empty or ends with a slash
LastReplacedBySlash ==
    /\ call.varPosition = Len(Segs(call.url)) - 1
    /\ (call.newValue = <<>> \/ Last(call.newValue) = Slash)

\* C4, amended: for a path with a non-empty segment, the result ends with a slash
\* if the path does; if the path does not, the result ends with a slash exactly
\* when the last segment is the one replaced and the value is empty or ends with
\* a slash.
C4_TrailingSlash ==
    (call.pc = "returned" /\ Segs(call.url) # <<>>) =>
        /\ EndsWithSlash(call.url) => EndsWithSlash(call.val)
        /\ ~EndsWithSlash(call.url) => (EndsWithSlash(call.val) <=> LastReplacedBySlash)

\* a path that ends with a slash had a segment replaced
C4_Witness ==
    /\ call.pc = "returned"
    /\ EndsWithSlash(call.url)
    /\ InRange(call.url, call.varPosition)
    /\ OneSegment(call.newValue)
    /\ EndsWithSlash(call.val)

\* C5: for a non-empty path of slashes only, the call returns normally, for every
\* position and value, and the result is "/".
C5_SlashesOnly ==
    (call.pc # "call" /\ call.url # <<>> /\ Segs(call.url) = <<>>) =>
        (call.pc = "returned" /\ call.val = <<Slash>>)

---------------------------------------------------------------------------
(* Properties of ModifyRequest, checked under Spec.                        *)

Tagged(group, entries) == [j \in 1..Len(entries) |-> [group |-> group, entry |-> entries[j]]]

\* the rules in the order of the claim: query, positional path, string path, JSON
\* body (none of the last when the body step is skipped)
AllRules ==
    Tagged("Querystring", cfg.Querystring) \o Tagged("PathParam", cfg.PathParam)
    \o Tagged("PathString", cfg.PathString)
    \o (IF BodySkipped(cfg, req0) THEN <<>> ELSE Tagged("JsonBody", cfg.JsonBody))

SameRule(a, b) == a.group = b.group /\ a.entry = b.entry

\* the claim value a rule refers to, as a string
Stringified(entry) == Sprintf(loc.jwt.m[entry.KeyJWT])

\* the path after the path rules among rules[1..j], each applied to what the ones
\* before it left
RECURSIVE PathAfter(_, _, _)
PathAfter(p, rules, j) ==
    IF j = 0 THEN p
    ELSE LET before == PathAfter(p, rules, j - 1)
             r == rules[j]
         IN  IF r.group = "PathParam"
             THEN replaceVarInUrl(before, r.entry.Position, Stringified(r.entry)).val
             ELSE IF r.group = "PathString"
             THEN ReplaceAll(before, r.entry.Name, Stringified(r.entry))
             ELSE before

\* the values of a query parameter after the query rules among rules[1..j]
RECURSIVE ValuesAfter(_, _, _, _)
ValuesAfter(values, name, rules, j) ==
    IF j = 0 THEN values
    ELSE IF rules[j].group = "Querystring" /\ rules[j].entry.Name = name
         THEN <<Stringified(rules[j].entry)>>
         ELSE ValuesAfter(values, name, rules, j - 1)

QueryAsLeftBy(rules, name) ==
    ValuesAfter(ParseQuery(req0.rawQuery)[name], name, rules, Len(rules))

QueryNameSet == {QueryNames[j] : j \in DOMAIN QueryNames}

\* C1: the rules are applied in the order query, positional path, string path,
\* JSON body, each in declared order and each to the request as the rules before
\* it left it; when a rule's claim is absent ModifyRequest returns an error and
\* no later rule is applied.
C1_OrderedFailFast ==
    /\ Len(applied) <= Len(AllRules)
    /\ \A j \in 1..Len(applied) :
          SameRule(applied[j], AllRules[j]) /\ Has(loc.jwt, applied[j].entry.KeyJWT)
    /\ req.path = PathAfter(req0.path, applied, Len(applied))
    /\ pc \in {"modifyQuerystring", "modifyPathParams", "modifyPathStrings",
               "modifyBodyJson", "bodyEntries"} =>
          \A name \in QueryNameSet : loc.query[name] = QueryAsLeftBy(applied, name)
    /\ (pc = "done" /\ err = KeyNotInJwt) =>
          /\ Len(applied) < Len(AllRules)
          /\ ~Has(loc.jwt, AllRules[Len(applied) + 1].entry.KeyJWT)
    /\ (pc = "done" /\ err = "") => Len(applied) = Len(AllRules)

\* a rule was applied, the next one's claim is absent: the call is over with the error
C1_Witness ==
    /\ pc = "done"
    /\ err = KeyNotInJwt
    /\ Len(applied) = 1
    /\ applied[1].group = "PathParam"
    /\ AllRules[2].group = "PathString"
    /\ req.path # req0.path

\* the raw token parseJwtValues works on: [none |-> TRUE] when there is none
RawOf(r, key) ==
    IF EqualFoldBearer(r.auth.prefix) /\ r.auth.rest # EmptyRaw
    THEN [none |-> FALSE, raw |-> r.auth.rest]
    ELSE IF \E j \in 1..Len(r.cookies) :
              /\ r.cookies[j].name = key
              /\ \A i \in 1..(j - 1) : r.cookies[i].name # key
              /\ r.cookies[j].value # EmptyRaw
         THEN [none |-> FALSE,
               raw |-> r.cookies[CHOOSE j \in 1..Len(r.cookies) :
                                    /\ r.cookies[j].name = key
                                    /\ \A i \in 1..(j - 1) : r.cookies[i].name # key].value]
         ELSE [none |-> TRUE, raw |-> EmptyRaw]

\* the reasons of C2: no token, fewer than 3 segments, a payload that is no
\* base64url, a payload that json.Unmarshal rejects
ExtractionFails ==
    LET t == RawOf(req0, cfg.JwtCookieKey)
    IN  \/ t.none
        \/ Len(t.raw) < 3
        \/ t.raw[2].enc = "garbage"
        \/ t.raw[2].json.t \in {"invalid", "num", "str", "arr"}

\* C2: when the extraction of the claims fails, ModifyRequest returns an error
\* and the request is as it was before the call, whatever the rules.
C2_ExtractionFailure ==
    (ExtractionFails /\ pc # "parseJwtValues") => (pc = "done" /\ err # "" /\ req = req0)

\* the token has two segments only, a rule is configured, and the call is over
C2_Witness ==
    /\ pc = "done"
    /\ ~RawOf(req0, cfg.JwtCookieKey).none
    /\ Len(RawOf(req0, cfg.JwtCookieKey).raw) = 2
    /\ Len(cfg.Querystring) = 1
    /\ err # ""

\* the token has at least 3 segments and its payload is valid JSON, no object
NonObjectPayload ==
    LET t == RawOf(req0, cfg.JwtCookieKey)
    IN  /\ ~t.none
        /\ Len(t.raw) >= 3
        /\ t.raw[2].enc = "b64"
        /\ t.raw[2].json.t \in {"null", "num", "str", "arr"}

\* C6: when the payload is valid JSON that is not an object, parseJwtValues
\* returns an error, and so ModifyRequest returns an error, even with no rule
\* configured.
C6_NonObjectPayload ==
    (NonObjectPayload /\ pc \in {"done", "panic"}) => (pc = "done" /\ err # "")

\* the body step runs on a body that is a JSON object
BodyRuns == ~BodySkipped(cfg, req0) /\ req0.body.text.t = "obj"

\* the claim value of the last body rule whose destination is the field
RECURSIVE Destined(_, _)
Destined(field, j) ==
    IF j = 0 THEN Absent
    ELSE IF cfg.JsonBody[j].Name = field THEN loc.jwt.m[cfg.JsonBody[j].KeyJWT]
    ELSE Destined(field, j - 1)

Destinations == {cfg.JsonBody[j].Name : j \in 1..Len(cfg.JsonBody)}

\* C7: when the body rules ran, the new body is an object; a field that is no
\* destination has its original value, and a destination has the claim value of
\* the last rule that names it, with its JSON type.
C7_BodyFields ==
    (BodyRuns /\ pc = "done" /\ err = "") =>
        /\ req.body.text.t = "obj"
        /\ \A x \in Names :
              req.body.text.o[x] = IF x \in Destinations
                                   THEN Destined(x, Len(cfg.JsonBody))
                                   ELSE req0.body.text.o[x]

\* C8: when the body step is not skipped and reads a body that is valid JSON but
\* no object, ModifyRequest returns an error (the claim names it MalformedBody),
\* and no rule's destination is written.
C8_NonObjectBody ==
    (/\ ~BodySkipped(cfg, req0)
     /\ req0.body.text.t \in {"null", "num", "str", "arr"}
     /\ req.body.read
     /\ pc \in {"done", "panic"}) => (pc = "done" /\ err # "")

\* ModifyRequest returned the error of a rule after the query rules
FailedAfterQuery == pc = "done" /\ err = KeyNotInJwt /\ Len(applied) >= Len(cfg.Querystring)

\* C9: nothing is rolled back: when a rule after the query rules fails, the
\* request holds the parameters the query rules wrote and the path as the path
\* rules before the failing one left it.
C9_NoRollback ==
    FailedAfterQuery =>
        /\ \A name \in QueryNameSet :
              ParseQuery(req.rawQuery)[name] = QueryAsLeftBy(Tagged("Querystring", cfg.Querystring), name)
        /\ req.path = PathAfter(req0.path, applied, Len(applied))

\* a query rule wrote its parameter, and a later rule failed
C9_Witness ==
    /\ FailedAfterQuery
    /\ Len(cfg.Querystring) = 1
    /\ ParseQuery(req.rawQuery)["q"] = <<Stringified(cfg.Querystring[1])>>
    /\ ParseQuery(req0.rawQuery)["q"] # ParseQuery(req.rawQuery)["q"]

\* ModifyRequest returned the error of a query rule
FailedInQuery == pc = "done" /\ err = KeyNotInJwt /\ Len(applied) < Len(cfg.Querystring)

\* C10: when a query rule fails, the request is as it was before the call: query
\* string, path and body, even when earlier query rules found their claims.
C10_QueryAllOrNothing == FailedInQuery => req = req0

\* the first query rule found its claim, the second did not
C10_Witness ==
    /\ FailedInQuery
    /\ Len(applied) = 1
    /\ req0.rawQuery # <<>>

====
